---- MODULE Spec2Model ----
(***************************************************************************)
(* The debate engine of MultiAgent-debate: startDebate and getAgentResponse *)
(* of src/src/App.svelte and the four provider adapters of src/src/api.ts. *)
(*                                                                         *)
(* Texts are sequences of tokens.  "M" is the marker '答案：' (it cannot     *)
(* overlap itself, so one token is one occurrence), "T" is the text        *)
(* '__TIMEOUT__', " " and "NL" are white space, anything else is an        *)
(* ordinary character.                                                     *)
(*                                                                         *)
(* JavaScript runs one task at a time: the code between two awaits is one  *)
(* step.  A user event (an edit of a bound input, a click) is a task of    *)
(* its own, so it can only run while the engine waits for a fetch or a     *)
(* timer, or is idle; the awaits that resume in a microtask (a resolved    *)
(* promise, tick()) let no user event in.                                  *)
(***************************************************************************)
EXTENDS Integers, Sequences, FiniteSets, TLC

VARIABLES
    question,        \* bound textarea
    selectedModels,  \* bound checkbox group
    maxRounds,       \* bound number input
    isDebating,
    chatHistory,
    completedSteps,
    stored,          \* localStorage item 'multiAgentChat'
    env,             \* the environment variables that are set and non-empty
    pc,              \* where the engine is suspended
    round,           \* startDebate: round
    i,               \* startDebate: i
    priorThisRound,  \* startDebate: priorThisRound
    prompt,          \* startDebate: prompt of the turn in progress
    callModel,       \* getAgentResponse: modelId
    opts,            \* callGemini: options
    attempt,         \* callGemini: attempt; callOpenRouter: the option being tried
    waitMs,          \* callGemini: the delay being waited
    result,          \* the value the adapter returned
    op,              \* history: "startDebate" when startDebate was the last call
    fetches,         \* history: network requests issued by the adapter call in progress
    log,             \* history: the outcome of each request of the adapter call in progress
    startCfg,        \* history: the inputs as they were when the run was accepted
    edits            \* history: number of edits of the bound inputs

vars == <<question, selectedModels, maxRounds, isDebating, chatHistory,
          completedSteps, stored, env, pc, round, i, priorThisRound, prompt,
          callModel, opts, attempt, waitMs, result, op, fetches, log,
          startCfg, edits>>

appVars == <<question, selectedModels, maxRounds, isDebating, chatHistory,
             completedSteps, stored>>

(***************************************************************************)
(* Bounds of the model.                                                    *)
(***************************************************************************)
MaxRoundsInput == 2     \* the round-limit field takes 0..MaxRoundsInput
MaxSelected == 2        \* at most this many boxes are checked at once
MaxEdits == 1           \* edits of the bound inputs in one behaviour
MaxRetries == 2         \* callGemini called directly: options.retries up to this
MaxLen == 4             \* getAgentResponse alone: reply texts up to this length

(***************************************************************************)
(* Texts.                                                                  *)
(***************************************************************************)
Marker == "M"
TimeoutText == <<"T">>
IsSpace(c) == c \in {" ", "NL"}

Max(a, b) == IF a >= b THEN a ELSE b
Min(a, b) == IF a <= b THEN a ELSE b

RECURSIVE TrimStart(_)
TrimStart(s) ==
    IF s = <<>> THEN <<>>
    ELSE IF IsSpace(Head(s)) THEN TrimStart(Tail(s)) ELSE s

RECURSIVE TrimEnd(_)
TrimEnd(s) ==
    IF s = <<>> THEN <<>>
    ELSE IF IsSpace(s[Len(s)]) THEN TrimEnd(SubSeq(s, 1, Len(s) - 1)) ELSE s

\* String.prototype.trim
Trim(s) == TrimEnd(TrimStart(s))

\* String.prototype.split(marker): the pieces between the occurrences
RECURSIVE Split(_)
Split(s) ==
    IF \A k \in 1..Len(s) : s[k] # Marker THEN <<s>>
    ELSE LET k == CHOOSE k \in 1..Len(s) :
                      s[k] = Marker /\ \A j \in 1..(k - 1) : s[j] # Marker
         IN  <<SubSeq(s, 1, k - 1)>> \o Split(SubSeq(s, k + 1, Len(s)))

\* Array.prototype.join('\n') of texts
RECURSIVE JoinNL(_)
JoinNL(parts) ==
    IF parts = <<>> THEN <<>>
    ELSE IF Len(parts) = 1 THEN parts[1]
    ELSE parts[1] \o <<"NL">> \o JoinNL(Tail(parts))

(***************************************************************************)
(* JavaScript values an adapter handles: null (or undefined), a string, or *)
(* a value that is truthy and no string (a number, an object).             *)
(***************************************************************************)
Null == [t |-> "null"]
Str(s) == [t |-> "str", s |-> s]
NotAString == [t |-> "other"]
TIMEOUT == Str(TimeoutText)

Truthy(v) == (v.t = "str" /\ v.s # <<>>) \/ v.t = "other"

(***************************************************************************)
(* The models, their credentials, and the values optional call options take.*)
(***************************************************************************)
availableModels ==
    << [id |-> "gpt-5",      name |-> "OpenAI GPT-5"],
       [id |-> "gemini",     name |-> "Gemini 2.5 Pro (Google)"],
       [id |-> "claude",     name |-> "Claude 3 (Anthropic)"],
       [id |-> "openrouter", name |-> "OpenRouter Free"] >>

ModelIds == {availableModels[k].id : k \in 1..Len(availableModels)}

\* availableModels.find(m => m.id === modelId)?.name || modelId
ModelName(modelId) ==
    IF modelId \in ModelIds
    THEN (CHOOSE m \in {availableModels[k] : k \in 1..Len(availableModels)} :
              m.id = modelId).name
    ELSE modelId

EnvVars == {"VITE_OPENAI_API_KEY", "VITE_GEMINI_API_KEY", "VITE_ANTHROPIC_API_KEY",
            "VITE_OPENROUTER_API_KEY", "OPENROUTER_API_KEY"}

\* as HasKey, with callOpenRouter's check of its key left out
HasKeyUncheckedOpenRouter(modelId) ==
    CASE modelId = "gpt-5"      -> "VITE_OPENAI_API_KEY" \in env
      [] modelId = "gemini"     -> "VITE_GEMINI_API_KEY" \in env
      [] modelId = "claude"     -> "VITE_ANTHROPIC_API_KEY" \in env
      [] modelId = "openrouter" -> TRUE
      [] OTHER                  -> FALSE

\* the apiKey each adapter reads is set and non-empty
HasKey(modelId) ==
    CASE modelId = "gpt-5"      -> "VITE_OPENAI_API_KEY" \in env
      [] modelId = "gemini"     -> "VITE_GEMINI_API_KEY" \in env
      [] modelId = "claude"     -> "VITE_ANTHROPIC_API_KEY" \in env
      [] modelId = "openrouter" -> "VITE_OPENROUTER_API_KEY" \in env
                                   \/ "OPENROUTER_API_KEY" \in env
      [] OTHER                  -> FALSE

\* an optional number: given, or undefined
Some(n) == [some |-> TRUE, v |-> n]
None == [some |-> FALSE, v |-> 0]
\* x ?? d
OrElse(x, d) == IF x.some THEN x.v ELSE d

DefaultRetries == 2
DefaultRetryDelayMs == 1500
DefaultTimeoutMs == 45000
DelayCapMs == 60000
AppTimeoutMs == 45000
AppRetries == 2
AppRetryDelayMs == 1500

\* the options getAgentResponse passes to callGemini
AppOptions == [timeoutMs |-> Some(AppTimeoutMs), retries |-> Some(AppRetries),
               retryDelayMs |-> Some(AppRetryDelayMs)]

\* Math.max(1, (options?.retries ?? 2) + 1)
MaxAttempts(options) == Max(1, OrElse(options.retries, DefaultRetries) + 1)

\* as RetryDelayMs, with the option left unread
RetryDelayMsFixed(options) == DefaultRetryDelayMs

\* options?.retryDelayMs ?? 1500
RetryDelayMs(options) == OrElse(options.retryDelayMs, DefaultRetryDelayMs)

(***************************************************************************)
(* Turns and prompts.                                                      *)
(***************************************************************************)
FailureThought(modelId, rnd) == <<"NO_REPLY_THOUGHT", ModelName(modelId), ToString(rnd)>>
FailureAnswer(modelId) == <<"NO_REPLY_ANSWER", ModelName(modelId)>>
TimeoutThought == <<"GEMINI_TIMED_OUT_SKIPPING">>
TimeoutAnswer == <<"GEMINI_TIMED_OUT">>

\* getAgentResponse throws: rawResponse is truthy and has no split method
Raises(modelId, res) ==
    /\ ~(modelId = "gemini" /\ res = TIMEOUT)
    /\ Truthy(res)
    /\ res.t # "str"

\* as GetAgentResponse, with the trim of the text after the marker left out
GetAgentResponseUntrimmed(modelId, res, rnd) ==
    IF modelId = "gemini" /\ res = TIMEOUT
    THEN [thought |-> TimeoutThought, answer |-> TimeoutAnswer]
    ELSE IF Truthy(res)
    THEN LET parts == Split(res.s)
         IN  IF Len(parts) = 2
             THEN [thought |-> <<>>, answer |-> parts[2]]
             ELSE [thought |-> <<>>, answer |-> Trim(res.s)]
    ELSE [thought |-> FailureThought(modelId, rnd), answer |-> FailureAnswer(modelId)]

\* as GetAgentResponse, without the test of callGemini's sentinel
GetAgentResponseNoTimeoutTest(modelId, res, rnd) ==
    IF Truthy(res)
    THEN LET parts == Split(res.s)
         IN  IF Len(parts) = 2
             THEN [thought |-> <<>>, answer |-> Trim(parts[2])]
             ELSE [thought |-> <<>>, answer |-> Trim(res.s)]
    ELSE [thought |-> FailureThought(modelId, rnd), answer |-> FailureAnswer(modelId)]

\* getAgentResponse, from the adapter's return value to the turn's texts
GetAgentResponse(modelId, res, rnd) ==
    IF modelId = "gemini" /\ res = TIMEOUT
    THEN [thought |-> TimeoutThought, answer |-> TimeoutAnswer]
    ELSE IF Truthy(res)
    THEN LET parts == Split(res.s)
         IN  IF Len(parts) = 2
             THEN [thought |-> <<>>, answer |-> Trim(parts[2])]
             ELSE [thought |-> <<>>, answer |-> Trim(res.s)]
    ELSE [thought |-> FailureThought(modelId, rnd), answer |-> FailureAnswer(modelId)]

buildFirstPrompt(q) == [kind |-> "first", speaker |-> 0, prior |-> <<>>, q |-> q]

buildDebatePrompt(q, prior, modelOrderIndex) ==
    [kind |-> "debate",
     speaker |-> modelOrderIndex + 1,
     prior |-> [k \in 1..Len(prior) |->
                   [pos |-> k, name |-> ModelName(prior[k].modelId),
                    answer |-> prior[k].answer]],
     q |-> q]

NoPrompt == [kind |-> "none", speaker |-> 0, prior |-> <<>>, q |-> <<>>]

\* as Stringify, of the new item instead of the whole chatHistory
StringifyLastOnly(h) ==
    [present |-> TRUE,
     json |-> [k \in 1..Min(1, Len(h)) |->
                  <<h[Len(h)].round, h[Len(h)].modelId, h[Len(h)].thought,
                    h[Len(h)].answer>>]]

\* JSON.stringify(chatHistory) and JSON.parse of it
Stringify(h) ==
    [present |-> TRUE,
     json |-> [k \in 1..Len(h) |->
                  <<h[k].round, h[k].modelId, h[k].thought, h[k].answer>>]]
Absent == [present |-> FALSE, json |-> <<>>]
Parse(item) ==
    [k \in 1..Len(item.json) |->
        [round |-> item.json[k][1], modelId |-> item.json[k][2],
         thought |-> item.json[k][3], answer |-> item.json[k][4]]]

(***************************************************************************)
(* The reactive declarations: Svelte recomputes them before it renders.    *)
(***************************************************************************)
\* $: totalSteps
totalSteps == Max(1, maxRounds * Len(selectedModels))

\* Math.round(c / t * 100) for c >= 0 and t >= 1: halves round up
RoundedPercent(c, t) == (200 * c + t) \div (2 * t)

\* as progressPercent, without Math.min(100, ...)
progressPercentUnclamped ==
    IF isDebating THEN RoundedPercent(completedSteps, totalSteps) ELSE 0

\* as progressPercent, without the test of isDebating
progressPercentWhileIdle ==
    Min(100, RoundedPercent(completedSteps, totalSteps))

\* $: progressPercent
progressPercent ==
    IF isDebating
    THEN Min(100, RoundedPercent(completedSteps, totalSteps))
    ELSE 0

(***************************************************************************)
(* What one network request can meet, and what each adapter makes of it.   *)
(* An outcome is [k, status, delay, body]: k is "ok" (res.ok and a parsed  *)
(* body), "http" (an error status), "abort" (the AbortController fired) or *)
(* "neterr" (fetch or res.json() threw something else); delay is the       *)
(* seconds of a RetryInfo retryDelay in an error body (None when there is  *)
(* none that parses); body is the value found where the adapter looks for  *)
(* the reply.                                                              *)
(***************************************************************************)
Arr(parts) == [t |-> "array", parts |-> parts]

ReplyTexts == {<<"a", "M", "b", " ">>, <<"M", "a", "M">>, <<" ", "NL">>, TimeoutText}
Delays == {None, Some(1), Some(30), Some(90)}
TextBodies == {Null, Str(<<>>), NotAString} \cup {Str(t) : t \in ReplyTexts}
ArrayBodies == {Arr(<<>>), Arr(<<Str(<<"a">>), Null, Str(<<"b">>)>>), Arr(<<Null>>)}

Outcome(k, status, delay, body) ==
    [k |-> k, status |-> status, delay |-> delay, body |-> body]

GeminiOutcomes ==
    {Outcome("ok", 200, None, b) : b \in TextBodies}
    \cup {Outcome("http", st, d, Null) : st \in {429, 503}, d \in Delays}
    \cup {Outcome("http", 400, None, Null),
          Outcome("abort", 0, None, Null), Outcome("neterr", 0, None, Null)}

AnthropicOutcomes ==
    {Outcome("ok", 200, None, b) : b \in TextBodies}
    \cup {Outcome("http", st, None, Null) : st \in {400, 503}}
    \cup {Outcome("neterr", 0, None, Null)}

OpenAIOutcomes ==
    {Outcome("ok", 200, None, b) : b \in TextBodies \cup ArrayBodies}
    \cup {Outcome("neterr", 0, None, Null)}

OpenRouterOutcomes ==
    {Outcome("ok", 200, None, b) : b \in TextBodies \cup ArrayBodies}
    \cup {Outcome("http", st, None, Null) : st \in {402, 503}}
    \cup {Outcome("neterr", 0, None, Null)}

\* the outcomes a whole run is checked with: one reply text, one failure of
\* each kind that ends differently
RunReply == Str(<<"a", "M", "b", " ">>)

RunGeminiOutcomes ==
    {Outcome("ok", 200, None, RunReply), Outcome("ok", 200, None, NotAString),
     Outcome("http", 400, None, Null), Outcome("abort", 0, None, Null)}

RunAnthropicOutcomes ==
    {Outcome("ok", 200, None, RunReply), Outcome("ok", 200, None, NotAString),
     Outcome("http", 503, None, Null)}

RunOpenAIOutcomes ==
    {Outcome("ok", 200, None, RunReply), Outcome("neterr", 0, None, Null)}

RunOpenRouterOutcomes ==
    {Outcome("ok", 200, None, RunReply), Outcome("http", 503, None, Null),
     Outcome("neterr", 0, None, Null)}

\* what the attempt met, for the history
Kind(o) ==
    CASE o.k = "ok"   -> IF Truthy(o.body) THEN "text" ELSE "empty"
      [] o.k = "http" -> IF o.status >= 500 \/ o.status = 429
                         THEN "retryable" ELSE "nonretryable"
      [] OTHER        -> o.k

\* how an adapter goes on after a request: it returns, waits, or fetches again
Ret(v) == [next |-> "ret", result |-> v, waitMs |-> 0]
Wait(ms) == [next |-> "wait", result |-> Null, waitMs |-> ms]
Again == [next |-> "fetch", result |-> Null, waitMs |-> 0]

\* raw.map(p => typeof p?.text === 'string' ? p.text : '')
FragmentTexts(parts) ==
    [k \in 1..Len(parts) |-> IF parts[k].t = "str" THEN parts[k].s ELSE <<>>]

\* as OpenAIResult, without the test of the joined text
OpenAIResultEmptyJoin(o) ==
    IF o.k # "ok" THEN Null
    ELSE IF o.body.t = "str" THEN o.body
    ELSE IF o.body.t = "array"
    THEN Str(Trim(JoinNL(FragmentTexts(o.body.parts))))
    ELSE Null

\* callOpenAI after the request
OpenAIResult(o) ==
    IF o.k # "ok" THEN Null
    ELSE IF o.body.t = "str" THEN o.body
    ELSE IF o.body.t = "array"
    THEN LET text == Trim(JoinNL(FragmentTexts(o.body.parts)))
         IN  IF text # <<>> THEN Str(text) ELSE Null
    ELSE Null

\* callAnthropic after the request: content ?? null
AnthropicResult(o) ==
    IF o.k # "ok" THEN Null
    ELSE IF o.body.t = "null" THEN Null ELSE o.body

\* as GeminiAttempt, with the test of attempts left placed before the return
\* of the content
GeminiAttemptRetriesFirst(o, att, options) ==
    LET n == MaxAttempts(options)
        d == RetryDelayMs(options)
    IN  CASE o.k = "http" ->
                IF att < n /\ (o.status >= 500 \/ o.status = 429)
                THEN Wait(IF o.delay.some
                          THEN Min(DelayCapMs, Max(d, o.delay.v * 1000))
                          ELSE d)
                ELSE Ret(Null)
          [] o.k = "ok" ->
                IF att < n THEN Wait(d)
                ELSE IF Truthy(o.body) THEN Ret(o.body) ELSE Ret(Null)
          [] o.k = "abort" -> IF att < n THEN Wait(d) ELSE Ret(TIMEOUT)
          [] OTHER -> IF att < n THEN Wait(d) ELSE Ret(Null)

\* as GeminiAttempt, retrying after every error status
GeminiAttemptRetriesAnyStatus(o, att, options) ==
    LET n == MaxAttempts(options)
        d == RetryDelayMs(options)
    IN  CASE o.k = "http" ->
                IF att < n
                THEN Wait(IF o.delay.some
                          THEN Min(DelayCapMs, Max(d, o.delay.v * 1000))
                          ELSE d)
                ELSE Ret(Null)
          [] o.k = "ok" ->
                IF Truthy(o.body) THEN Ret(o.body)
                ELSE IF att < n THEN Wait(d) ELSE Ret(Null)
          [] o.k = "abort" -> IF att < n THEN Wait(d) ELSE Ret(TIMEOUT)
          [] OTHER -> IF att < n THEN Wait(d) ELSE Ret(Null)

\* as GeminiAttempt, without Math.min(60000, ...)
GeminiAttemptUncapped(o, att, options) ==
    LET n == MaxAttempts(options)
        d == RetryDelayMs(options)
    IN  CASE o.k = "http" ->
                IF att < n /\ (o.status >= 500 \/ o.status = 429)
                THEN Wait(IF o.delay.some
                          THEN Max(d, o.delay.v * 1000)
                          ELSE d)
                ELSE Ret(Null)
          [] o.k = "ok" ->
                IF Truthy(o.body) THEN Ret(o.body)
                ELSE IF att < n THEN Wait(d) ELSE Ret(Null)
          [] o.k = "abort" -> IF att < n THEN Wait(d) ELSE Ret(TIMEOUT)
          [] OTHER -> IF att < n THEN Wait(d) ELSE Ret(Null)

\* callGemini: one pass of the loop body after the request of attempt att
GeminiAttempt(o, att, options) ==
    LET n == MaxAttempts(options)
        d == RetryDelayMs(options)
    IN  CASE o.k = "http" ->
                IF att < n /\ (o.status >= 500 \/ o.status = 429)
                THEN Wait(IF o.delay.some
                          THEN Min(DelayCapMs, Max(d, o.delay.v * 1000))
                          ELSE d)
                ELSE Ret(Null)
          [] o.k = "ok" ->
                IF Truthy(o.body) THEN Ret(o.body)
                ELSE IF att < n THEN Wait(d) ELSE Ret(Null)
          [] o.k = "abort" -> IF att < n THEN Wait(d) ELSE Ret(TIMEOUT)
          [] OTHER -> IF att < n THEN Wait(d) ELSE Ret(Null)

modelCandidates == <<"openrouter/auto">>
\* as tokenBudgets, with one budget only
tokenBudgetsSingle == <<512>>

tokenBudgets == <<512, 256>>

\* callOpenRouter: tryOnce after its request
tryOnce(o) ==
    IF o.k = "http" THEN [ok |-> FALSE, status |-> o.status, content |-> Null]
    ELSE LET content ==
                 IF o.body.t = "array"
                 THEN LET text == Trim(JoinNL(FragmentTexts(o.body.parts)))
                      IN  IF Len(text) = 0 THEN Null ELSE Str(text)
                 ELSE IF o.body.t = "str" THEN o.body
                 ELSE Null
         IN  IF ~Truthy(content)
             THEN [ok |-> FALSE, status |-> 200, content |-> Null]
             ELSE [ok |-> TRUE, status |-> 200, content |-> content]

\* callOpenRouter: the loops over modelCandidates and tokenBudgets, att being
\* the number of the option tried; after a failed option the loop body ends
\* whatever the status, so the next option is tried
OpenRouterAttempt(o, att) ==
    IF o.k \in {"neterr", "abort"} THEN Ret(Null)
    ELSE LET r == tryOnce(o)
         IN  IF r.ok THEN Ret(r.content)
             ELSE IF att < Len(modelCandidates) * Len(tokenBudgets)
             THEN Again ELSE Ret(Null)

(***************************************************************************)
(* The state after construction.  The bound inputs start at any values the *)
(* form lets the user give them before the first click; the store holds    *)
(* nothing or what an earlier session left; the environment is fixed.      *)
(***************************************************************************)
\* bind:group keeps the checked values in the order of the checkboxes
CheckedList(S) ==
    SelectSeq([k \in 1..Len(availableModels) |-> availableModels[k].id],
              LAMBDA m : m \in S)

Selections ==
    {CheckedList(S) : S \in {X \in SUBSET ModelIds : Cardinality(X) <= MaxSelected}}

Questions == {<<>>, <<" ">>, <<"q">>}

EarlierSession ==
    << [round |-> 1, modelId |-> "gemini", thought |-> <<>>, answer |-> <<"b">>] >>

StoredSamples == {Absent, Stringify(EarlierSession)}

EnvSamples ==
    { {},
      {"VITE_OPENAI_API_KEY", "VITE_ANTHROPIC_API_KEY"},
      {"VITE_GEMINI_API_KEY", "OPENROUTER_API_KEY"} }

NoOptions == [timeoutMs |-> None, retries |-> None, retryDelayMs |-> None]
NoCfg == [rounds |-> 0, models |-> <<>>, q |-> <<>>]

Init ==
    /\ question \in Questions
    /\ selectedModels \in Selections
    /\ maxRounds \in 0..MaxRoundsInput
    /\ isDebating = FALSE
    /\ chatHistory = <<>>
    /\ completedSteps = 0
    /\ stored \in StoredSamples
    /\ env \in EnvSamples
    /\ pc = "mount"
    /\ round = 0
    /\ i = 0
    /\ priorThisRound = <<>>
    /\ prompt = NoPrompt
    /\ callModel = "none"
    /\ opts = NoOptions
    /\ attempt = 0
    /\ waitMs = 0
    /\ result = Null
    /\ op = "init"
    /\ fetches = 0
    /\ log = <<>>
    /\ startCfg = NoCfg
    /\ edits = 0

inputVars == <<question, selectedModels, maxRounds>>
loopVars == <<round, i, priorThisRound, prompt>>
adapterVars == <<callModel, opts, attempt, waitMs, result, fetches, log>>

(***************************************************************************)
(* onMount and the bound inputs.                                           *)
(***************************************************************************)
OnMount ==
    /\ pc = "mount"
    /\ chatHistory' = IF stored.present THEN Parse(stored) ELSE chatHistory
    /\ pc' = "idle"
    /\ op' = "other"
    /\ UNCHANGED <<inputVars, isDebating, completedSteps, stored, env, loopVars,
                   adapterVars, startCfg, edits>>

\* a user event runs only between tasks: while the engine is idle or has
\* stopped, or while an adapter awaits a request or a timer.  No adapter
\* reads a bound input, so an edit made later in a call leaves the engine
\* where the same edit made at the call's first request leaves it: it is
\* taken there.
BetweenTasks ==
    \/ pc \in {"idle", "raised"}
    \/ pc = "fetch" /\ fetches = 1

Edit ==
    /\ BetweenTasks
    /\ edits < MaxEdits
    /\ edits' = edits + 1
    /\ op' = "other"
    /\ UNCHANGED <<isDebating, chatHistory, completedSteps, stored, env, pc,
                   loopVars, adapterVars, startCfg>>

SetQuestion(q) ==
    /\ q # question
    /\ Edit
    /\ question' = q
    /\ UNCHANGED <<selectedModels, maxRounds>>

ToggleModel(m) ==
    LET S == {selectedModels[k] : k \in 1..Len(selectedModels)}
        T == IF m \in S THEN S \ {m} ELSE S \cup {m}
    IN  /\ Cardinality(T) <= MaxSelected
        /\ Edit
        /\ selectedModels' = CheckedList(T)
        /\ UNCHANGED <<question, maxRounds>>

SetMaxRounds(n) ==
    /\ n # maxRounds
    /\ Edit
    /\ maxRounds' = n
    /\ UNCHANGED <<question, selectedModels>>

(***************************************************************************)
(* startDebate.                                                            *)
(***************************************************************************)
\* an adapter up to its first await: it returns null at once without its
\* key, and issues its first request with it
Invoke(modelId, options) ==
    /\ callModel' = modelId
    /\ opts' = options
    /\ waitMs' = 0
    /\ log' = <<>>
    /\ result' = Null
    /\ IF HasKey(modelId)
       THEN pc' = "fetch" /\ attempt' = 1 /\ fetches' = 1
       ELSE pc' = "ret" /\ attempt' = 0 /\ fetches' = 0

\* the loop body of turn (r, idx) up to the await of getAgentResponse
BeginTurn(r, idx, prior) ==
    /\ round' = r
    /\ i' = idx
    /\ priorThisRound' = prior
    /\ prompt' = IF idx = 0 THEN buildFirstPrompt(question)
                 ELSE buildDebatePrompt(question, prior, idx)
    /\ Invoke(selectedModels[idx + 1],
              IF selectedModels[idx + 1] = "gemini" THEN AppOptions ELSE NoOptions)

\* the locals of a call that is over
ClearCall ==
    /\ callModel' = "none"
    /\ opts' = NoOptions
    /\ attempt' = 0
    /\ waitMs' = 0
    /\ result' = Null
    /\ fetches' = 0
    /\ log' = <<>>

\* the statement after the loops
Finish ==
    /\ isDebating' = FALSE
    /\ pc' = "idle"
    /\ round' = 0
    /\ i' = 0
    /\ priorThisRound' = <<>>
    /\ prompt' = NoPrompt
    /\ ClearCall

Turn(r, idx, fresh) == [done |-> FALSE, round |-> r, i |-> idx, fresh |-> fresh]
Done == [done |-> TRUE, round |-> 0, i |-> 0, fresh |-> FALSE]

\* the test of the loop over rounds, entering round r: with no model selected
\* every remaining round is empty
OuterLoop(r, rounds, n) ==
    IF r <= rounds /\ n > 0 THEN Turn(r, 0, TRUE) ELSE Done

\* the test of the loop over models at index idx of round r
InnerLoop(r, idx, rounds, n) ==
    IF idx < n THEN Turn(r, idx, FALSE) ELSE OuterLoop(r + 1, rounds, n)

\* as NewRoundPrior, with the list declared outside the loop over rounds
NewRoundPriorKept(prior) == prior

\* priorThisRound of a round that begins
NewRoundPrior(prior) == <<>>

\* as StartRejected, refusing a round limit below 1 as well
StartRejectedBelowOneRound(q, models) ==
    Trim(q) = <<>> \/ Len(models) = 0 \/ maxRounds < 1

\* as StartRejected, without the test of the selection
StartRejectedQuestionOnly(q, models) == Trim(q) = <<>>

\* the guard of startDebate
StartRejected(q, models) == Trim(q) = <<>> \/ Len(models) = 0

\* as StartDisabled, with the button left enabled during a run
StartNeverDisabled(debating) == FALSE

\* the start button's disabled={isDebating || ...}
StartDisabled(debating) == debating

\* a click on the start button is a task of its own, and the button is
\* disabled while debating; startDebate itself tests the question and the
\* selection
StartDebate ==
    /\ pc \in {"idle", "fetch", "wait", "raised"}
    /\ ~StartDisabled(isDebating)
    /\ op' = "startDebate"
    /\ UNCHANGED <<inputVars, stored, env, edits>>
    /\ IF StartRejected(question, selectedModels)
       THEN UNCHANGED <<isDebating, chatHistory, completedSteps, pc, loopVars,
                        adapterVars, startCfg>>
       ELSE /\ chatHistory' = <<>>
            /\ completedSteps' = 0
            /\ startCfg' = [rounds |-> maxRounds, models |-> selectedModels,
                            q |-> question]
            /\ LET nxt == OuterLoop(1, maxRounds, Len(selectedModels))
               IN  IF nxt.done THEN Finish
                   ELSE /\ isDebating' = TRUE
                        /\ BeginTurn(nxt.round, nxt.i, NewRoundPrior(priorThisRound))

(***************************************************************************)
(* The adapters' awaits.                                                   *)
(***************************************************************************)
\* the adapter goes on as step says after a request
AdapterStep(o, step) ==
    /\ log' = Append(log, o)
    /\ op' = "other"
    /\ pc' = step.next
    /\ result' = step.result
    /\ waitMs' = step.waitMs
    /\ attempt' = IF step.next = "fetch" THEN attempt + 1 ELSE attempt
    /\ fetches' = IF step.next = "fetch" THEN fetches + 1 ELSE fetches
    /\ UNCHANGED <<appVars, env, loopVars, callModel, opts, startCfg, edits>>

OpenAIResponse(o) ==
    /\ pc = "fetch"
    /\ callModel = "gpt-5"
    /\ AdapterStep(o, Ret(OpenAIResult(o)))

GeminiResponse(o) ==
    /\ pc = "fetch"
    /\ callModel = "gemini"
    /\ AdapterStep(o, GeminiAttempt(o, attempt, opts))

\* the retry delay has passed: the next attempt's request
GeminiWaitDone ==
    /\ pc = "wait"
    /\ callModel = "gemini"
    /\ pc' = "fetch"
    /\ attempt' = attempt + 1
    /\ fetches' = fetches + 1
    /\ waitMs' = 0
    /\ op' = "other"
    /\ UNCHANGED <<appVars, env, loopVars, callModel, opts, result, log,
                   startCfg, edits>>

AnthropicResponse(o) ==
    /\ pc = "fetch"
    /\ callModel = "claude"
    /\ AdapterStep(o, Ret(AnthropicResult(o)))

OpenRouterResponse(o) ==
    /\ pc = "fetch"
    /\ callModel = "openrouter"
    /\ AdapterStep(o, OpenRouterAttempt(o, attempt))

(***************************************************************************)
(* startDebate after getAgentResponse, and after tick().                   *)
(***************************************************************************)
\* as Appended, spreading the list of the round instead of chatHistory
AppendedToRound(h, prior, item) == Append(prior, item)

\* chatHistory = [...chatHistory, item]
Appended(h, prior, item) == Append(h, item)

\* getAgentResponse maps the adapter's value to a turn, or throws; the turn
\* is appended, counted and stored, and startDebate awaits tick()
Return ==
    /\ pc = "ret"
    /\ op' = "other"
    /\ UNCHANGED <<inputVars, isDebating, env, round, i, prompt, adapterVars,
                   startCfg, edits>>
    /\ IF Raises(callModel, result)
       THEN /\ pc' = "raised"
            /\ UNCHANGED <<chatHistory, completedSteps, stored, priorThisRound>>
       ELSE LET r == GetAgentResponse(callModel, result, round)
                item == [round |-> round, modelId |-> callModel,
                         thought |-> r.thought, answer |-> r.answer]
            IN  /\ chatHistory' = Appended(chatHistory, priorThisRound, item)
                /\ priorThisRound' = Append(priorThisRound, item)
                /\ completedSteps' = completedSteps + 1
                /\ stored' = Stringify(chatHistory')
                /\ pc' = "tick"

\* i++ and the loop tests, then the next turn or the end of the run
TickResume ==
    /\ pc = "tick"
    /\ op' = "other"
    /\ UNCHANGED <<inputVars, chatHistory, completedSteps, stored, env,
                   startCfg, edits>>
    /\ LET nxt == InnerLoop(round, i + 1, maxRounds, Len(selectedModels))
       IN  IF nxt.done THEN Finish
           ELSE /\ UNCHANGED isDebating
                /\ BeginTurn(nxt.round, nxt.i,
                             IF nxt.fresh THEN NewRoundPrior(priorThisRound)
                             ELSE priorThisRound)

Next ==
    \/ OnMount
    \/ \E q \in Questions : SetQuestion(q)
    \/ \E m \in ModelIds : ToggleModel(m)
    \/ \E n \in 0..MaxRoundsInput : SetMaxRounds(n)
    \/ StartDebate
    \/ \E o \in RunOpenAIOutcomes : OpenAIResponse(o)
    \/ \E o \in RunGeminiOutcomes : GeminiResponse(o)
    \/ GeminiWaitDone
    \/ \E o \in RunAnthropicOutcomes : AnthropicResponse(o)
    \/ \E o \in RunOpenRouterOutcomes : OpenRouterResponse(o)
    \/ Return
    \/ TickResume

Spec == Init /\ [][Next]_vars

(***************************************************************************)
(* A run goes on whenever it can: a pending request settles, a timer       *)
(* fires, a continuation runs.  Nothing makes the user edit or click.      *)
(***************************************************************************)
RunStep ==
    \/ \E o \in RunOpenAIOutcomes : OpenAIResponse(o)
    \/ \E o \in RunGeminiOutcomes : GeminiResponse(o)
    \/ GeminiWaitDone
    \/ \E o \in RunAnthropicOutcomes : AnthropicResponse(o)
    \/ \E o \in RunOpenRouterOutcomes : OpenRouterResponse(o)
    \/ Return
    \/ TickResume

SpecFair == Spec /\ WF_vars(RunStep)

(***************************************************************************)
(* One turn alone: getAgentResponse is about to call the adapter of any    *)
(* model, callGemini with any options, and the provider may answer with    *)
(* any outcome.                                                            *)
(***************************************************************************)
TurnEnvSamples ==
    { {},
      {"VITE_OPENAI_API_KEY", "VITE_GEMINI_API_KEY", "VITE_ANTHROPIC_API_KEY",
       "VITE_OPENROUTER_API_KEY"},
      {"OPENROUTER_API_KEY"} }

GeminiOptionSets ==
    {[timeoutMs |-> None, retries |-> r, retryDelayMs |-> d] :
        r \in {None} \cup {Some(n) : n \in (0 - 2)..MaxRetries},
        d \in {None, Some(70000)}}
    \cup {AppOptions}

InitTurn ==
    /\ \E m \in ModelIds :
          /\ callModel = m
          /\ selectedModels = <<m>>
          /\ opts \in (IF m = "gemini" THEN GeminiOptionSets ELSE {NoOptions})
    /\ question = <<"q">>
    /\ maxRounds = 1
    /\ isDebating = TRUE
    /\ chatHistory = <<>>
    /\ completedSteps = 0
    /\ stored = Absent
    /\ env \in TurnEnvSamples
    /\ pc = "invoke"
    /\ round = 1
    /\ i = 0
    /\ priorThisRound = <<>>
    /\ prompt = buildFirstPrompt(question)
    /\ attempt = 0
    /\ waitMs = 0
    /\ result = Null
    /\ op = "startDebate"
    /\ fetches = 0
    /\ log = <<>>
    /\ startCfg = [rounds |-> maxRounds, models |-> selectedModels, q |-> question]
    /\ edits = 0

InvokeDirect ==
    /\ pc = "invoke"
    /\ Invoke(callModel, opts)
    /\ op' = "other"
    /\ UNCHANGED <<appVars, env, loopVars, startCfg, edits>>

NextTurn ==
    \/ InvokeDirect
    \/ \E o \in OpenAIOutcomes : OpenAIResponse(o)
    \/ \E o \in GeminiOutcomes : GeminiResponse(o)
    \/ GeminiWaitDone
    \/ \E o \in AnthropicOutcomes : AnthropicResponse(o)
    \/ \E o \in OpenRouterOutcomes : OpenRouterResponse(o)
    \/ Return
    \/ TickResume

SpecTurn == InitTurn /\ [][NextTurn]_vars

(***************************************************************************)
(* getAgentResponse alone: an adapter has returned any text up to MaxLen   *)
(* tokens, null, or a value that is no string.                             *)
(***************************************************************************)
ParseAlphabet == {"a", "M", " ", "T"}
Texts == UNION {[1..n -> ParseAlphabet] : n \in 0..MaxLen}
ParseInputs == {Str(t) : t \in Texts} \cup {Null, NotAString}

InitParse ==
    /\ \E m \in ModelIds :
          /\ callModel = m
          /\ selectedModels = <<m>>
          /\ opts = IF m = "gemini" THEN AppOptions ELSE NoOptions
    /\ result \in ParseInputs
    /\ question = <<"q">>
    /\ maxRounds = 1
    /\ isDebating = TRUE
    /\ chatHistory = <<>>
    /\ completedSteps = 0
    /\ stored = Absent
    /\ env = EnvVars
    /\ pc = "ret"
    /\ round = 1
    /\ i = 0
    /\ priorThisRound = <<>>
    /\ prompt = buildFirstPrompt(question)
    /\ attempt = 1
    /\ waitMs = 0
    /\ op = "other"
    /\ fetches = 1
    /\ log = <<Outcome("ok", 200, None, result)>>
    /\ startCfg = [rounds |-> maxRounds, models |-> selectedModels, q |-> question]
    /\ edits = 0

NextParse == Return \/ TickResume

SpecParse == InitParse /\ [][NextParse]_vars

(***************************************************************************)
(* Properties of the run.                                                  *)
(***************************************************************************)
\* a run that startDebate accepted has finished, and nothing was started since
RunFinished == pc = "idle" /\ ~isDebating /\ startCfg # NoCfg

\* turn k of a transcript of rounds over the models, in (round, model) order
TurnOrdered(h, models, k) ==
    /\ h[k].round = ((k - 1) \div Len(models)) + 1
    /\ h[k].modelId = models[((k - 1) % Len(models)) + 1]

\* C1: when a run accepted with R >= 1 rounds and A >= 1 selected models
\* finishes, the transcript holds exactly R * A turns, and turn k carries
\* round (k-1) div A + 1 and the model at index (k-1) mod A of the selection.
C1_TranscriptIsRoundsTimesAgents ==
    (RunFinished /\ startCfg.rounds >= 1 /\ Len(startCfg.models) >= 1)
    => /\ Len(chatHistory) = startCfg.rounds * Len(startCfg.models)
       /\ \A k \in 1..Len(chatHistory) :
             TurnOrdered(chatHistory, startCfg.models, k)

\* the same for the runs during which no input was edited, before or after
\* the start
TranscriptOfUneditedRun ==
    (RunFinished /\ edits = 0 /\ startCfg.rounds >= 1)
    => /\ Len(chatHistory) = startCfg.rounds * Len(startCfg.models)
       /\ \A k \in 1..Len(chatHistory) :
             TurnOrdered(chatHistory, startCfg.models, k)

\* the turns of the transcript that round rnd produced
TurnsOfRound(h, rnd) == SelectSeq(h, LAMBDA t : t.round = rnd)

\* a turn's adapter call is in progress or has just returned
InCall == pc \in {"fetch", "wait", "ret"}

\* C2: while the model at index i > 0 of a round is being asked, the list of
\* prior turns its debate prompt was built from is exactly the turns of the
\* same round at indices 0..i-1, in order, and holds no turn of another round.
C2_PriorIsThisRoundOnly ==
    (InCall /\ i > 0)
    => /\ priorThisRound = TurnsOfRound(chatHistory, round)
       /\ Len(priorThisRound) = i
       /\ \A k \in 1..Len(priorThisRound) : priorThisRound[k].round = round
       /\ prompt.kind = "debate"
       /\ prompt.speaker = i + 1
       /\ Len(prompt.prior) = i
       /\ \A k \in 1..Len(prompt.prior) :
             /\ prompt.prior[k].pos = k
             /\ prompt.prior[k].name = ModelName(priorThisRound[k].modelId)
             /\ prompt.prior[k].answer = priorThisRound[k].answer

\* a second model of the second round is being asked
C2_Witness ==
    /\ pc = "fetch"
    /\ round = 2
    /\ i = 1
    /\ Len(chatHistory) = 3
    /\ Len(priorThisRound) = 1

\* C3: whatever the adapter returned, getAgentResponse raises nothing: the
\* step after the adapter's return appends exactly one turn of the round and
\* model in progress, and the loop goes on; a failure gives the failure
\* sentinels naming the model and, in the thought, the round.
C3_EveryOutcomeAppendsOneTurn ==
    [][pc = "ret"
       => /\ pc' = "tick"
          /\ Len(chatHistory') = Len(chatHistory) + 1
          /\ chatHistory'[Len(chatHistory')].round = round
          /\ chatHistory'[Len(chatHistory')].modelId = callModel
          /\ ~Truthy(result)
             => /\ chatHistory'[Len(chatHistory')].thought
                      = FailureThought(callModel, round)
                /\ chatHistory'[Len(chatHistory')].answer
                      = FailureAnswer(callModel)]_vars

\* C4: every run that startDebate accepted comes back to Idle, provided each
\* request settles.
C4_RunReturnsToIdle == isDebating ~> ~isDebating

\* a run none of whose models has a key goes through its turns without a
\* request and comes back to Idle
RunWithoutKeysEnds ==
    (env = {} /\ isDebating) ~> (~isDebating /\ RunFinished)

(***************************************************************************)
(* Properties of one adapter call.                                         *)
(***************************************************************************)
\* the outcome of the last request of the call
LastOutcome == log[Len(log)]

\* every request before the last met HTTP 429 or 5xx, and the last one
\* brought a non-empty text
RetryableThenText ==
    /\ log # <<>>
    /\ \A j \in 1..(Len(log) - 1) :
          log[j].k = "http" /\ (log[j].status = 429 \/ log[j].status >= 500)
    /\ LastOutcome.k = "ok"
    /\ LastOutcome.body.t = "str"
    /\ LastOutcome.body.s # <<>>

\* C5: when callGemini's attempts 1..k-1 each met HTTP 429 or 5xx and
\* attempt k brought a non-empty text, the call returns that text after
\* exactly k requests, k within max_attempts; and no request of a call
\* follows one that brought a text.
C5_TextAfterRetryableFailures ==
    callModel = "gemini"
    => /\ \A j \in 1..(Len(log) - 1) :
             ~(log[j].k = "ok" /\ log[j].body.t = "str" /\ log[j].body.s # <<>>)
       /\ (pc = "ret" /\ RetryableThenText)
          => /\ result = LastOutcome.body
             /\ fetches = Len(log)
             /\ attempt = Len(log)
             /\ Len(log) <= MaxAttempts(opts)

\* callGemini has returned the text of its third request after two HTTP 503
C5_Witness ==
    /\ pc = "ret"
    /\ callModel = "gemini"
    /\ Len(log) = 3
    /\ log[1].status = 503
    /\ log[2].status = 503
    /\ RetryableThenText
    /\ result = Str(<<"a", "M", "b", " ">>)
    /\ fetches = 3

\* C6: callGemini makes at most N = max(1, retries + 1) requests; it returns
\* '__TIMEOUT__' if and only if request N was aborted by the per-attempt
\* timeout; a timeout of an earlier request only makes it wait retryDelayMs
\* before the next request.
C6_TimeoutIffLastAttemptTimedOut ==
    callModel = "gemini"
    => /\ attempt <= MaxAttempts(opts)
       /\ fetches <= MaxAttempts(opts)
       /\ pc = "ret"
          => (result = TIMEOUT
              <=> (Len(log) = MaxAttempts(opts) /\ LastOutcome.k = "abort"))
       /\ (pc = "wait" /\ LastOutcome.k = "abort")
          => (waitMs = RetryDelayMs(opts) /\ attempt < MaxAttempts(opts))

\* the same, apart from the replies whose text is the sentinel itself
TimeoutIffLastAttemptTimedOutOrEchoed ==
    callModel = "gemini"
    => /\ attempt <= MaxAttempts(opts)
       /\ fetches <= MaxAttempts(opts)
       /\ (pc = "ret"
           /\ ~(log # <<>> /\ LastOutcome.k = "ok" /\ LastOutcome.body = TIMEOUT))
          => (result = TIMEOUT
              <=> (Len(log) = MaxAttempts(opts) /\ LastOutcome.k = "abort"))
       /\ (pc = "wait" /\ LastOutcome.k = "abort")
          => (waitMs = RetryDelayMs(opts) /\ attempt < MaxAttempts(opts))

\* the environment holds no key for the adapter of modelId
CredentialAbsent(modelId) ==
    \/ modelId = "gpt-5" /\ "VITE_OPENAI_API_KEY" \notin env
    \/ modelId = "gemini" /\ "VITE_GEMINI_API_KEY" \notin env
    \/ modelId = "claude" /\ "VITE_ANTHROPIC_API_KEY" \notin env
    \/ /\ modelId = "openrouter"
       /\ "VITE_OPENROUTER_API_KEY" \notin env
       /\ "OPENROUTER_API_KEY" \notin env

\* C7: an adapter called without its credential returns null, having issued
\* no request and entered no retry loop: it is never found waiting for a
\* response or for a retry delay.
C7_NoCredentialNoRequest ==
    (pc # "invoke" /\ CredentialAbsent(callModel))
    => /\ pc \notin {"fetch", "wait"}
       /\ result = Null
       /\ fetches = 0
       /\ attempt = 0
       /\ log = <<>>

\* callOpenRouter has returned with neither of its two keys set
C7_Witness ==
    /\ pc = "ret"
    /\ callModel = "openrouter"
    /\ CredentialAbsent("openrouter")
    /\ result = Null
    /\ fetches = 0

(***************************************************************************)
(* Properties of the turn built from a reply.                              *)
(***************************************************************************)
\* the turn the last step appended
LastTurn == chatHistory[Len(chatHistory)]

MarkerCount(t) == Cardinality({k \in 1..Len(t) : t[k] = "M"})
MarkerAt(t) == CHOOSE k \in 1..Len(t) : t[k] = "M"
BeforeMarker(t) == SubSeq(t, 1, MarkerAt(t) - 1)
AfterMarker(t) == SubSeq(t, MarkerAt(t) + 1, Len(t))

\* a turn was just built from a non-empty reply text
BuiltFromText == pc = "tick" /\ result.t = "str" /\ result.s # <<>>

C9_WholeTextWhenNotOneMarker ==
    (BuiltFromText /\ MarkerCount(result.s) # 1)
    => /\ LastTurn.thought = <<>>
       /\ LastTurn.answer = Trim(result.s)

\* the same, apart from callGemini's reply whose text is its own sentinel
WholeTextWhenNotOneMarkerNorSentinel ==
    (BuiltFromText /\ MarkerCount(result.s) # 1
        /\ ~(callModel = "gemini" /\ result = TIMEOUT))
    => /\ LastTurn.thought = <<>>
       /\ LastTurn.answer = Trim(result.s)

(***************************************************************************)
(* Properties of startDebate's guard.                                      *)
(***************************************************************************)
\* the question is empty or all whitespace
BlankQuestion == \A k \in 1..Len(question) : question[k] \in {" ", "NL"}

\* C10: startDebate called with an empty or whitespace-only question, or
\* with no model selected, leaves the transcript, the counter of completed
\* turns, the running flag and the stored snapshot as they were and calls no
\* adapter.
C10_RejectedStartIsNoOp ==
    [][(op' = "startDebate" /\ (BlankQuestion \/ selectedModels = <<>>))
       => UNCHANGED <<chatHistory, completedSteps, isDebating, stored, pc,
                      callModel, fetches, attempt>>]_vars

\* startDebate was just called with a whitespace-only question over a
\* transcript loaded at mount
C10_Witness ==
    /\ op = "startDebate"
    /\ pc = "idle"
    /\ question = <<" ">>
    /\ chatHistory # <<>>
    /\ stored.present
    /\ ~isDebating

(***************************************************************************)
(* Properties of the progress display.                                     *)
(***************************************************************************)
\* p is the whole percentage nearest to c / t, and 100 from c = t on
NearestPercent(c, t, p) ==
    IF c >= t THEN p = 100
    ELSE /\ 2 * (100 * c - p * t) <= t
         /\ 2 * (p * t - 100 * c) <= t

\* round limit times number of selected models, as the inputs now read
LiveTotal ==
    IF maxRounds * Len(selectedModels) >= 1
    THEN maxRounds * Len(selectedModels) ELSE 1

\* C11 as the specification states it: in every state the progress lies
\* between 0 and 100 percent, is the ratio of the completed turns to rounds
\* times models, clamped, and reads 0 before any start.
C11_ProgressIsClampedRatio ==
    /\ progressPercent \in 0..100
    /\ NearestPercent(completedSteps, LiveTotal, progressPercent)
    /\ startCfg = NoCfg => progressPercent = 0

\* C11: in every state the progress lies between 0 and 100 percent; while
\* a run is in progress it is the ratio of the completed turns to the round
\* limit times the number of selected models as they now read (at least 1),
\* in whole percent and at most 100; while none is, before any start and
\* after a run alike, it reads 0.
C11_ProgressInRangeAndZeroWhenIdle ==
    /\ progressPercent \in 0..100
    /\ isDebating => NearestPercent(completedSteps, LiveTotal, progressPercent)
    /\ ~isDebating => progressPercent = 0

\* one of four turns is appended and the progress reads 25 percent
C11_Witness ==
    /\ isDebating
    /\ pc = "tick"
    /\ completedSteps = 1
    /\ maxRounds = 2
    /\ Len(selectedModels) = 2
    /\ progressPercent = 25

\* C12 as the specification states it: once a run has finished and the
\* engine is idle again the progress reads complete.
C12_ProgressCompleteWhenFinished ==
    (RunFinished /\ startCfg.rounds >= 1) => progressPercent = 100

\* C12: once a run has finished and the engine is idle again the progress
\* reads 0, and the counter of completed turns is the length of the
\* transcript.
C12_ProgressZeroWhenFinished ==
    RunFinished
    => /\ progressPercent = 0
       /\ completedSteps = Len(chatHistory)

\* a run of two turns has finished
C12_Witness ==
    /\ RunFinished
    /\ completedSteps = 2
    /\ Len(chatHistory) = 2
    /\ totalSteps = 2
    /\ progressPercent = 0

(***************************************************************************)
(* Properties of the transcript and its stored copy.                       *)
(***************************************************************************)
\* C13: at the await of tick() that follows the append of a turn, the item
\* in the store reads back as the whole transcript in memory, the new turn
\* included; the write leaves the transcript in memory as the append made it.
C13_StoredEqualsTranscriptAtTick ==
    pc = "tick"
    => /\ stored.present
       /\ Len(stored.json) = Len(chatHistory)
       /\ Parse(stored) = chatHistory
       /\ chatHistory # <<>>
       /\ LastTurn.round = round
       /\ LastTurn.modelId = callModel

\* the second turn of a run was appended and stored
C13_Witness ==
    /\ pc = "tick"
    /\ Len(chatHistory) = 2
    /\ stored.present
    /\ Len(stored.json) = 2
    /\ stored.json[2][2] = chatHistory[2].modelId

\* C14 as the specification states it: in every state, also after onMount has loaded a stored transcript
\* and before any start, the transcript is as long as the counter of
\* completed turns says.
C14_LengthEqualsCounter == Len(chatHistory) = completedSteps

\* C14: from the first accepted start on, the transcript is as long as the
\* counter of completed turns says; before it the counter is 0, while the
\* transcript holds whatever onMount loaded from the store.
C14_LengthEqualsCounterOnceStarted ==
    /\ startCfg # NoCfg => Len(chatHistory) = completedSteps
    /\ startCfg = NoCfg
       => /\ completedSteps = 0
          /\ (pc # "mount" /\ stored.present) => chatHistory = Parse(stored)
          /\ (pc # "mount" /\ ~stored.present) => chatHistory = <<>>

\* onMount has loaded a stored transcript and nothing was started
C14_Witness ==
    /\ pc = "idle"
    /\ startCfg = NoCfg
    /\ chatHistory # <<>>
    /\ completedSteps = 0

\* startDebate passes its guard in this step
AcceptedStart ==
    /\ op' = "startDebate"
    /\ ~(BlankQuestion \/ selectedModels = <<>>)

\* C15: from an accepted start to the next, every step leaves the transcript
\* as it is or adds exactly one turn at its end: no turn written is changed,
\* moved or removed.
C15_TranscriptAppendOnly ==
    [][(pc # "mount" /\ ~AcceptedStart)
       => \/ chatHistory' = chatHistory
          \/ /\ Len(chatHistory') = Len(chatHistory) + 1
             /\ SubSeq(chatHistory', 1, Len(chatHistory)) = chatHistory]_vars

\* the first turn of the second round was appended after the two turns of
\* the first
C15_Witness ==
    /\ pc = "tick"
    /\ round = 2
    /\ Len(chatHistory) = 3
    /\ chatHistory[1].round = 1
    /\ chatHistory[2].round = 1
    /\ chatHistory[3].round = 2

(***************************************************************************)
(* Properties of what a prompt is built from.                              *)
(***************************************************************************)
\* C16 as the specification states it: the prompt of every turn but the
\* first of the session carries all the turns appended so far, those of
\* earlier rounds included.
C16_PromptHasAllEarlierTurns ==
    (InCall /\ chatHistory # <<>>)
    => /\ Len(prompt.prior) = Len(chatHistory)
       /\ \A k \in 1..Len(prompt.prior) :
             prompt.prior[k].answer = chatHistory[k].answer

\* C16: the prompt of the first turn of every round carries the question
\* alone; the prompt of a later turn of a round carries the answers of the
\* turns of that round appended so far and of no earlier round.
C16_PromptHasThisRoundOnly ==
    InCall
    => /\ i = 0 => (prompt.kind = "first" /\ prompt.prior = <<>>)
       /\ i > 0
          => /\ prompt.kind = "debate"
             /\ Len(prompt.prior) = Len(TurnsOfRound(chatHistory, round))
             /\ \A k \in 1..Len(prompt.prior) :
                   prompt.prior[k].answer
                      = TurnsOfRound(chatHistory, round)[k].answer
       /\ round > 1 => Len(prompt.prior) < Len(chatHistory)

\* the first model of the second round is asked with the question alone
C16_Witness ==
    /\ pc = "fetch"
    /\ round = 2
    /\ i = 0
    /\ Len(chatHistory) = 2
    /\ prompt.kind = "first"
    /\ prompt.prior = <<>>

(***************************************************************************)
(* Properties of the normalisation of a payload (callOpenAI, tryOnce).     *)
(***************************************************************************)
\* the text fields of the fragments, '' for a fragment without one, joined
\* by a newline and trimmed
JoinedFragments(b) ==
    Trim(JoinNL([k \in 1..Len(b.parts) |->
                    IF b.parts[k].t = "str" THEN b.parts[k].s ELSE <<>>]))

\* the payload normalised as the specification states it
NormalizedTrimmed(b) ==
    CASE b.t = "str"   -> IF Trim(b.s) # <<>> THEN Str(Trim(b.s)) ELSE Null
      [] b.t = "array" -> IF JoinedFragments(b) # <<>>
                          THEN Str(JoinedFragments(b)) ELSE Null
      [] OTHER         -> Null

\* the payload normalised with a string left as it came
NormalizedAsReceived(b) ==
    CASE b.t = "str"   -> b
      [] b.t = "array" -> IF JoinedFragments(b) # <<>>
                          THEN Str(JoinedFragments(b)) ELSE Null
      [] OTHER         -> Null

\* callOpenAI or callOpenRouter has returned after a request that brought a
\* payload
ReturnedPayload ==
    /\ pc = "ret"
    /\ callModel \in {"gpt-5", "openrouter"}
    /\ log # <<>>
    /\ LastOutcome.k = "ok"

\* C17 as the specification states it: a string payload gives its trimmed
\* text, or nothing when that is empty; fragments give their texts joined by
\* a newline and trimmed, or nothing when that is empty; any other shape
\* gives nothing.
C17_PayloadNormalizedTrimmed ==
    ReturnedPayload
    => /\ Truthy(NormalizedTrimmed(LastOutcome.body))
          => result = NormalizedTrimmed(LastOutcome.body)
       /\ ~Truthy(NormalizedTrimmed(LastOutcome.body)) => ~Truthy(result)

\* C17: a string payload is returned as it came, untrimmed, a string of
\* white space included (callOpenAI returns an empty string too, which is
\* falsy; callOpenRouter returns null for it); fragments
\* give their texts joined by a newline and trimmed, or nothing when that is
\* empty; any other shape gives nothing; and the turn built from a string of
\* white space has an empty answer, not the failure sentinel.
C17_StringPayloadAsReceived ==
    /\ ReturnedPayload
       => /\ callModel = "gpt-5"
             => result = NormalizedAsReceived(LastOutcome.body)
          /\ callModel = "openrouter"
             => result = IF Truthy(NormalizedAsReceived(LastOutcome.body))
                         THEN NormalizedAsReceived(LastOutcome.body)
                         ELSE Null
    /\ (pc = "tick" /\ callModel \in {"gpt-5", "openrouter"}
          /\ result.t = "str" /\ result.s # <<>> /\ Trim(result.s) = <<>>)
       => (LastTurn.thought = <<>> /\ LastTurn.answer = <<>>)

\* callOpenAI has returned a text with its trailing white space
C17_Witness ==
    /\ ReturnedPayload
    /\ callModel = "gpt-5"
    /\ LastOutcome.body = Str(<<"a", "M", "b", " ">>)
    /\ result = Str(<<"a", "M", "b", " ">>)

(***************************************************************************)
(* Properties of the engine's sequencing.                                  *)
(***************************************************************************)
\* requests issued by the adapter call in progress and not yet settled
InFlight == fetches - Len(log)

\* this step begins the adapter call of another turn
CallBegins ==
    /\ pc' \in {"fetch", "wait", "ret"}
    /\ <<round, i>>' # <<round, i>>

\* C18: at most one request is in flight at any moment; startDebate passes
\* its guard only while no run is in progress, so no second loop begins
\* beside a running one; and the call of a turn begins only from Idle or
\* from the await of tick() that follows the append of the turn before.
C18_OneCallOneLoop ==
    [][/\ InFlight' \in 0..1
       /\ (InFlight' = 1) <=> (pc' = "fetch")
       /\ AcceptedStart => (~isDebating /\ pc = "idle")
       /\ CallBegins
          => \/ pc = "idle" /\ AcceptedStart
             \/ /\ pc = "tick"
                /\ LastTurn.round = round
                /\ LastTurn.modelId = callModel
                /\ Len(chatHistory') = Len(chatHistory)]_vars

\* the request of the second turn is in flight after the first turn was
\* appended
C18_Witness ==
    /\ pc = "fetch"
    /\ isDebating
    /\ i = 1
    /\ Len(chatHistory) = 1
    /\ InFlight = 1

\* C19: the question, the list of models and the round limit of a run are
\* those startDebate was accepted with: whatever is edited while the run is
\* in progress, every turn asked is the turn of the accepted list at its
\* index, in a round within the accepted limit, with a prompt on the
\* accepted question, and the run ends with rounds times models turns.
C19_ConfigurationFixedAtStart ==
    /\ (isDebating /\ InCall)
       => /\ round <= startCfg.rounds
          /\ i < Len(startCfg.models)
          /\ callModel = startCfg.models[i + 1]
          /\ prompt.q = startCfg.q
    /\ RunFinished
       => Len(chatHistory) = startCfg.rounds * Len(startCfg.models)

\* the same for the runs during which no input was edited
ConfigurationOfUneditedRun ==
    edits = 0
    => /\ (isDebating /\ InCall)
          => /\ round <= startCfg.rounds
             /\ i < Len(startCfg.models)
             /\ callModel = startCfg.models[i + 1]
             /\ prompt.q = startCfg.q
       /\ RunFinished
          => Len(chatHistory) = startCfg.rounds * Len(startCfg.models)

\* C20: the engine is Idle or Running and nothing else: an accepted start
\* empties the transcript, zeroes the counter and enters Running before the
\* first request; the engine leaves Running only once the last turn of the
\* last round is appended; no failure of a provider stops it in between or
\* sends it back to Idle early.
C20_IdleRunningIdle ==
    [][/\ pc' # "raised"
       /\ (AcceptedStart /\ maxRounds >= 1)
          => (isDebating' /\ chatHistory' = <<>> /\ completedSteps' = 0
              /\ Len(log') = 0)
       /\ isDebating' => pc' \in {"invoke", "fetch", "wait", "ret", "tick"}
       /\ (isDebating /\ ~isDebating')
          => /\ pc' = "idle"
             /\ Len(chatHistory') = startCfg.rounds * Len(startCfg.models)
             /\ LastTurn.round = startCfg.rounds]_vars

\* the same for the runs during which no input was edited and no adapter
\* returned a value that is no string
IdleRunningIdleUneditedNoThrow ==
    [][(edits' = 0 /\ pc' # "raised")
       => /\ (AcceptedStart /\ maxRounds >= 1)
             => (isDebating' /\ chatHistory' = <<>> /\ completedSteps' = 0
                 /\ Len(log') = 0)
          /\ isDebating' => pc' \in {"invoke", "fetch", "wait", "ret", "tick"}
          /\ (isDebating /\ ~isDebating')
             => /\ pc' = "idle"
                /\ Len(chatHistory') = startCfg.rounds * Len(startCfg.models)
                /\ LastTurn.round = startCfg.rounds]_vars

(***************************************************************************)
(* Properties of the turn built after a timeout.                           *)
(***************************************************************************)
\* a turn was just built after callGemini's last request was aborted by the
\* timer
BuiltAfterTimeout ==
    /\ pc = "tick"
    /\ callModel = "gemini"
    /\ log # <<>>
    /\ LastOutcome.k = "abort"

\* C21 as the specification states it: the turn built after a timeout has
\* an empty thought and the timed-out sentinel as its answer, which is not
\* the failure answer.
C21_TimeoutTurnThoughtEmpty ==
    BuiltAfterTimeout
    => /\ LastTurn.thought = <<>>
       /\ LastTurn.answer = TimeoutAnswer
       /\ LastTurn.answer # FailureAnswer(callModel)

\* C21: the turn built after a timeout has the fixed timed-out notice, which
\* is not empty, as its thought and the timed-out sentinel as its answer;
\* neither is the failure sentinel of the model.
C21_TimeoutTurnHasNotice ==
    BuiltAfterTimeout
    => /\ LastTurn.thought = TimeoutThought
       /\ LastTurn.thought # <<>>
       /\ LastTurn.thought # FailureThought(callModel, round)
       /\ LastTurn.answer = TimeoutAnswer
       /\ LastTurn.answer # FailureAnswer(callModel)

\* three requests of callGemini timed out and the turn was built
C21_Witness ==
    /\ BuiltAfterTimeout
    /\ Len(log) = 3
    /\ log[1].k = "abort"
    /\ log[2].k = "abort"
    /\ result = TIMEOUT
    /\ LastTurn.answer = TimeoutAnswer

(***************************************************************************)
(* Properties of callGemini's retries.                                     *)
(***************************************************************************)
\* the delay callGemini was asked to wait between attempts
BaseDelay == IF opts.retryDelayMs.some THEN opts.retryDelayMs.v ELSE 1500

NonRetryableStatus(o) == o.k = "http" /\ o.status # 429 /\ o.status < 500
RetryableStatus(o) == o.k = "http" /\ (o.status = 429 \/ o.status >= 500)
EmptyOrNetworkError(o) ==
    \/ o.k = "ok" /\ o.body \in {Null, Str(<<>>)}
    \/ o.k = "neterr"

\* callGemini's last request has settled
GeminiSettled == callModel = "gemini" /\ log # <<>> /\ pc # "fetch"

\* C22 as the specification states it: after an error status other than 429
\* and below 500, with attempts left, callGemini waits and tries again.
C22_NonRetryableStatusRetried ==
    (GeminiSettled /\ NonRetryableStatus(LastOutcome)
        /\ Len(log) < MaxAttempts(opts))
    => (pc = "wait" /\ waitMs = BaseDelay)

\* C22: after an error status other than 429 and below 500 callGemini
\* returns null at once, whatever attempts are left: it neither waits nor
\* makes another request.
C22_NonRetryableStatusReturnsNull ==
    (callModel = "gemini" /\ log # <<>> /\ NonRetryableStatus(LastOutcome))
    => /\ pc \in {"ret", "tick"}
       /\ result = Null
       /\ fetches = Len(log)
       /\ attempt = Len(log)

\* callGemini has returned after HTTP 400 on the first of three attempts
C22_Witness ==
    /\ pc = "ret"
    /\ callModel = "gemini"
    /\ Len(log) = 1
    /\ log[1].status = 400
    /\ MaxAttempts(opts) = 3
    /\ result = Null

\* C23: after a reply without text or an exception other than the timeout,
\* callGemini waits retryDelayMs and makes another request while attempts
\* are left, and returns null when this was attempt max_attempts.
C23_EmptyOrErrorRetried ==
    /\ (GeminiSettled /\ EmptyOrNetworkError(LastOutcome))
       => IF Len(log) < MaxAttempts(opts)
          THEN /\ pc = "wait"
               /\ waitMs = BaseDelay
               /\ attempt = Len(log)
          ELSE /\ pc \in {"ret", "tick"}
               /\ result = Null
               /\ fetches = MaxAttempts(opts)
    /\ (callModel = "gemini" /\ pc = "fetch")
       => /\ fetches = Len(log) + 1
          /\ fetches <= MaxAttempts(opts)

\* callGemini has returned null after three requests without a text
C23_Witness ==
    /\ pc = "ret"
    /\ callModel = "gemini"
    /\ Len(log) = 3
    /\ log[1].k = "neterr"
    /\ log[2].k = "ok"
    /\ log[3].k = "neterr"
    /\ result = Null

\* C24: the wait after HTTP 429 or 5xx is retryDelayMs when the error body
\* suggests no delay, and otherwise the larger of retryDelayMs and the
\* suggested delay, at most 60 seconds; so with a suggestion it is at most
\* 60 seconds, and it is never less than the smaller of retryDelayMs and 60
\* seconds.
C24_BackoffWait ==
    (callModel = "gemini" /\ pc = "wait" /\ RetryableStatus(LastOutcome))
    => /\ ~LastOutcome.delay.some => waitMs = BaseDelay
       /\ LastOutcome.delay.some
          => /\ waitMs <= 60000
             /\ waitMs = IF BaseDelay >= 1000 * LastOutcome.delay.v
                         THEN (IF BaseDelay > 60000 THEN 60000 ELSE BaseDelay)
                         ELSE (IF 1000 * LastOutcome.delay.v > 60000
                               THEN 60000 ELSE 1000 * LastOutcome.delay.v)
       /\ waitMs >= (IF BaseDelay < 60000 THEN BaseDelay ELSE 60000)

\* callGemini waits 60 seconds after HTTP 429 suggesting 90
C24_Witness ==
    /\ pc = "wait"
    /\ callModel = "gemini"
    /\ LastOutcome.status = 429
    /\ LastOutcome.delay = Some(90)
    /\ BaseDelay = 1500
    /\ waitMs = 60000

(***************************************************************************)
(* Properties of the adapters' timeouts and numbers of requests.           *)
(***************************************************************************)
\* the timer of the request in flight aborts it: only an adapter whose
\* outcomes include the abort can take this step
TimeoutFires ==
    \/ \E o \in OpenAIOutcomes : o.k = "abort" /\ OpenAIResponse(o)
    \/ \E o \in GeminiOutcomes : o.k = "abort" /\ GeminiResponse(o)
    \/ \E o \in AnthropicOutcomes : o.k = "abort" /\ AnthropicResponse(o)
    \/ \E o \in OpenRouterOutcomes : o.k = "abort" /\ OpenRouterResponse(o)

\* every request of the call so far was aborted by the timer
AllTimedOut == log # <<>> /\ \A k \in 1..Len(log) : log[k].k = "abort"

FirstOptionFailed ==
    /\ log # <<>>
    /\ log[1].k # "neterr"
    /\ ~tryOnce(log[1]).ok

FirstOptionFailedBelow500 ==
    /\ callModel = "openrouter"
    /\ FirstOptionFailed
    /\ tryOnce(log[1]).status < 500

\* C27: after an option that failed with a status below 500 callOpenRouter
\* makes no further request and returns null.
C27_NextOptionOnlyAfterServerError ==
    FirstOptionFailedBelow500
    => /\ fetches = 1
       /\ pc \in {"ret", "tick", "idle"}
       /\ result = Null

(***************************************************************************)
(* Properties of the reset at an accepted start.                           *)
(***************************************************************************)
\* between the reset and the first append of the new run
ResetWindow == isDebating /\ chatHistory = <<>>

\* C28: an accepted start empties chatHistory and leaves the stored item as
\* it is, which is the transcript the reset removed from memory; no step
\* writes the store before the first turn of the new run is appended.
C28_ResetLeavesStore ==
    [][/\ AcceptedStart => (chatHistory' = <<>> /\ stored' = stored)
       /\ (AcceptedStart /\ chatHistory # <<>>)
          => (stored'.present /\ Parse(stored') = chatHistory)
       /\ (ResetWindow /\ chatHistory' = <<>>) => stored' = stored]_vars

\* a run has been started over a stored transcript and awaits its first
\* request: memory is empty and the store is not
C28_Witness ==
    /\ ResetWindow
    /\ pc = "fetch"
    /\ completedSteps = 0
    /\ stored.present
    /\ Parse(stored) # <<>>
    /\ Parse(stored) # chatHistory

\* C29: startDebate with a question, a selection and a round limit below 1
\* is not rejected: it empties chatHistory and the counter, requests
\* nothing, appends nothing, leaves the stored item as it is and ends idle.
C29_NoRoundsRunIsEmpty ==
    [][(AcceptedStart /\ maxRounds < 1)
       => /\ chatHistory' = <<>>
          /\ completedSteps' = 0
          /\ stored' = stored
          /\ fetches' = fetches
          /\ pc' = "idle"
          /\ ~isDebating'
          /\ startCfg'.rounds = maxRounds]_vars

\* startDebate was just called with a round limit of 0 over a stored
\* transcript: memory is empty, the store is not, and the engine is idle
C29_Witness ==
    /\ op = "startDebate"
    /\ pc = "idle"
    /\ ~isDebating
    /\ maxRounds = 0
    /\ question = <<"q">>
    /\ selectedModels # <<>>
    /\ chatHistory = <<>>
    /\ completedSteps = 0
    /\ startCfg.rounds = 0
    /\ stored.present

\* C30: the turn is the timed-out placeholder only when the last request of
\* the call was aborted by the timer; a reply with a text never gives it.
C30_PlaceholderOnlyAfterTimeout ==
    (pc = "tick" /\ LastTurn.thought = TimeoutThought
        /\ LastTurn.answer = TimeoutAnswer)
    => (log # <<>> /\ LastOutcome.k = "abort")

====
